---- MODULE Spec2Model ----
(***************************************************************************)
(* Model of the Skier entity (src/src/Entities/Skier.ts): lifecycle state, *)
(* facing direction, speed, display image, position, and the chain of      *)
(* delayed jump callbacks scheduled with setTimeout.                        *)
(*                                                                         *)
(* Positions are kept exactly: a coordinate is a pair [u, d] standing for   *)
(* the number u + d / DIAGONAL_SPEED_REDUCER, so that the diagonal moves    *)
(* (speed / DIAGONAL_SPEED_REDUCER) need no rounding.                       *)
(***************************************************************************)
EXTENDS Integers, Sequences, FiniteSets, TLC

VARIABLES state, direction, speed, imageName, position, timers, last

vars == <<state, direction, speed, imageName, position, timers, last>>

(* ------------------------------ bounds --------------------------------- *)

\* The world is explored up to this many starting-speed steps from the origin.
MaxTravel == 1

\* At most this many jump callbacks are pending at once.
MaxTimers == 2

(* ----------------------------- constants ------------------------------- *)

STARTING_SPEED == 10

STATE_SKIING == "skiing"
STATE_CRASHED == "crashed"
STATE_DEAD == "dead"
STATE_JUMPING == "jumping"

STATES == {STATE_SKIING, STATE_CRASHED, STATE_DEAD, STATE_JUMPING}

DIRECTION_LEFT == 0
DIRECTION_LEFT_DOWN == 1
DIRECTION_DOWN == 2
DIRECTION_RIGHT_DOWN == 3
DIRECTION_RIGHT == 4

SKIER_CRASH == "skierCrash"
JUMP_RAMP == "jumpRamp"
ROCK1 == "rock1"
ROCK2 == "rock2"
TREE == "tree"
TREE_CLUSTER == "treeCluster"

DIRECTION_IMAGES ==
    (DIRECTION_LEFT :> "skierLeft") @@
    (DIRECTION_LEFT_DOWN :> "skierLeftDown") @@
    (DIRECTION_DOWN :> "skierDown") @@
    (DIRECTION_RIGHT_DOWN :> "skierRightDown") @@
    (DIRECTION_RIGHT :> "skierRight")

jumpStagesCount == 5

\* The image table of the jump: one image per progress index 0..4.
IMAGES ==
    (0 :> "skierJump1") @@ (1 :> "skierJump2") @@ (2 :> "skierJump3") @@
    (3 :> "skierJump4") @@ (4 :> "skierJump5")

\* DIAGONAL_SPEED_REDUCER as the fraction DiagNum / DiagDen (1.4142).
DiagNum == 7071
DiagDen == 5000

KEYS == {"LEFT", "RIGHT", "UP", "DOWN", "SPACE"}

\* The keys handed to handleInput: the five game keys and one other key.
InputKeys == KEYS \cup {"OTHER"}

(* ------------------------------ helpers -------------------------------- *)

Abs(n) == IF n < 0 THEN -n ELSE n

\* The Skier object: its fields and the callbacks it has scheduled.
Self ==
    [state |-> state, direction |-> direction, speed |-> speed,
     imageName |-> imageName, position |-> position, timers |-> timers]

isCrashed(s) == s.state = STATE_CRASHED
isSkiing(s) == s.state = STATE_SKIING
isDead(s) == s.state = STATE_DEAD
isJumping(s) == s.state = STATE_JUMPING

setDirectionalImage(s) ==
    [s EXCEPT !.imageName =
        IF s.direction \in DOMAIN DIRECTION_IMAGES
        THEN DIRECTION_IMAGES[s.direction] ELSE "undefined"]

setDirection(s, d) == setDirectionalImage([s EXCEPT !.direction = d])

setJumpingImage(s, progress) ==
    IF progress \in DOMAIN IMAGES
    THEN [s EXCEPT !.imageName = IMAGES[progress]]
    ELSE s

(* ------------------------------ movement ------------------------------- *)

\* moveSkierLeft() that scales the nudge by the current speed.
moveSkierLeft_bySpeed(s) ==
    [s EXCEPT !.position.x.u = @ - s.speed]

moveSkierLeft(s) ==
    [s EXCEPT !.position.x.u = @ - STARTING_SPEED]

moveSkierLeftDown(s) ==
    [s EXCEPT !.position.x.d = @ - s.speed, !.position.y.d = @ + s.speed]

moveSkierDown(s) ==
    [s EXCEPT !.position.y.u = @ + s.speed]

moveSkierRightDown(s) ==
    [s EXCEPT !.position.x.d = @ + s.speed, !.position.y.d = @ + s.speed]

moveSkierRight(s) ==
    [s EXCEPT !.position.x.u = @ + STARTING_SPEED]

moveSkierUp(s) ==
    [s EXCEPT !.position.y.u = @ - STARTING_SPEED]

\* move() that also slides a skier who faces fully sideways.
move_sideways(s) ==
    CASE s.direction = DIRECTION_LEFT_DOWN -> moveSkierLeftDown(s)
      [] s.direction = DIRECTION_DOWN -> moveSkierDown(s)
      [] s.direction = DIRECTION_RIGHT_DOWN -> moveSkierRightDown(s)
      [] s.direction = DIRECTION_LEFT -> moveSkierLeft(s)
      [] s.direction = DIRECTION_RIGHT -> moveSkierRight(s)
      [] OTHER -> s

move(s) ==
    CASE s.direction = DIRECTION_LEFT_DOWN -> moveSkierLeftDown(s)
      [] s.direction = DIRECTION_DOWN -> moveSkierDown(s)
      [] s.direction = DIRECTION_RIGHT_DOWN -> moveSkierRightDown(s)
      [] OTHER -> s

(* --------------------------- state changes ----------------------------- *)

changeSkierState(s, newState) == [s EXCEPT !.state = newState]

\* crash() that forgets to stop the skier.
crash_keepSpeed(s) ==
    [s EXCEPT !.state = STATE_CRASHED, !.imageName = SKIER_CRASH]

crash(s) ==
    [s EXCEPT !.state = STATE_CRASHED, !.speed = 0, !.imageName = SKIER_CRASH]

\* recoverFromCrash() that forgets to restore the speed.
recoverFromCrash_keepSpeed(s, newDirection) ==
    setDirection([s EXCEPT !.state = STATE_SKIING], newDirection)

recoverFromCrash(s, newDirection) ==
    setDirection([s EXCEPT !.state = STATE_SKIING, !.speed = STARTING_SPEED],
                 newDirection)

\* die() that also drops the pending jump callbacks.
dieOf_cancel(s) == [s EXCEPT !.state = STATE_DEAD, !.speed = 0, !.timers = << >>]

dieOf(s) == [s EXCEPT !.state = STATE_DEAD, !.speed = 0]

\* jump() that forgets to hand the skier back to skiing after the last stage.
jump_noLanding(s, progress) ==
    IF isCrashed(s) THEN s
    ELSE LET t == setJumpingImage(s, progress)
         IN  IF progress + 1 = jumpStagesCount
             THEN t
             ELSE [t EXCEPT !.timers = Append(@, progress + 1)]

\* jump() whose last-stage test is off by one.
jump_lateEnd(s, progress) ==
    IF isCrashed(s) THEN s
    ELSE LET t == setJumpingImage(s, progress)
         IN  IF progress = jumpStagesCount
             THEN changeSkierState(t, STATE_SKIING)
             ELSE [t EXCEPT !.timers = Append(@, progress + 1)]

\* jump(currentProgress): one stage of the jump; the setTimeout call appends
\* the next stage to the pending callbacks.
jump(s, progress) ==
    IF isCrashed(s) THEN s
    ELSE LET t == setJumpingImage(s, progress)
         IN  IF progress + 1 = jumpStagesCount
             THEN changeSkierState(t, STATE_SKIING)
             ELSE [t EXCEPT !.timers = Append(@, progress + 1)]

\* jumpIf() that restarts the jump whatever the state.
jumpIf_always(s) == jump(changeSkierState(s, STATE_JUMPING), 0)

jumpIf(s) ==
    IF s.state # STATE_JUMPING
    THEN jump(changeSkierState(s, STATE_JUMPING), 0)
    ELSE s

\* crashIf() that crashes a jumping skier too.
crashIf_always(s) == crash(s)

crashIf(s) == IF s.state # STATE_JUMPING THEN crash(s) ELSE s

(* ------------------------------- turning ------------------------------- *)

\* turnLeft() that keeps turning at full-left.
turnLeft_noStop(s) ==
    LET r == IF isCrashed(s) THEN recoverFromCrash(s, DIRECTION_LEFT) ELSE s
    IN  setDirection(r, r.direction - 1)

turnLeft(s) ==
    LET r == IF isCrashed(s) THEN recoverFromCrash(s, DIRECTION_LEFT) ELSE s
    IN  IF r.direction = DIRECTION_LEFT
        THEN moveSkierLeft(r)
        ELSE setDirection(r, r.direction - 1)

turnRight(s) ==
    LET r == IF isCrashed(s) THEN recoverFromCrash(s, DIRECTION_RIGHT) ELSE s
    IN  IF r.direction = DIRECTION_RIGHT
        THEN moveSkierRight(r)
        ELSE setDirection(r, r.direction + 1)

\* turnUp() that nudges a crashed skier too.
turnUp_whenCrashed(s) ==
    IF s.direction = DIRECTION_LEFT \/ s.direction = DIRECTION_RIGHT
    THEN moveSkierUp(s)
    ELSE s

turnUp(s) ==
    IF isCrashed(s) THEN s
    ELSE IF s.direction = DIRECTION_LEFT \/ s.direction = DIRECTION_RIGHT
         THEN moveSkierUp(s)
         ELSE s

turnDown(s) ==
    IF isCrashed(s) THEN s ELSE setDirection(s, DIRECTION_DOWN)

(* ------------------------- bounds and collisions ----------------------- *)

\* A value that may be null is a sequence: empty for null, else one element.
NoImage == << >>
NoBounds == << >>
Some(v) == <<v>>
The(opt) == opt[1]

\* Rectangles are compared in units of 1 / (4 * DiagNum) of a world unit, in
\* which halves and quarters of an image size and the diagonal moves are whole.
Scaled(q) == 4 * (DiagNum * q.u + DiagDen * q.d)

Rect(left, top, right, bottom) ==
    [left |-> left, top |-> top, right |-> right, bottom |-> bottom]

\* The rectangle of an obstacle, given in world units, in the compared units.
ScaledRect(r) ==
    Rect(4 * DiagNum * r.left, 4 * DiagNum * r.top,
         4 * DiagNum * r.right, 4 * DiagNum * r.bottom)

\* getBounds() with the bottom edge a quarter of the height below the centre.
getBounds_below(s, image) ==
    IF image = NoImage THEN NoBounds
    ELSE Some(Rect(Scaled(s.position.x) - 2 * DiagNum * The(image).width,
                   Scaled(s.position.y) - 2 * DiagNum * The(image).height,
                   Scaled(s.position.x) + 2 * DiagNum * The(image).width,
                   Scaled(s.position.y) + DiagNum * The(image).height))

getBounds(s, image) ==
    IF image = NoImage THEN NoBounds
    ELSE Some(Rect(Scaled(s.position.x) - 2 * DiagNum * The(image).width,
                   Scaled(s.position.y) - 2 * DiagNum * The(image).height,
                   Scaled(s.position.x) + 2 * DiagNum * The(image).width,
                   Scaled(s.position.y) - DiagNum * The(image).height))

intersectTwoRects(rect1, rect2) ==
    ~(\/ rect2.left > rect1.right
      \/ rect2.right < rect1.left
      \/ rect2.top > rect1.bottom
      \/ rect2.bottom < rect1.top)

\* Does the find() callback of checkIfHitObstacle accept this obstacle?
Collides(skierBounds, obstacle) ==
    IF obstacle.bounds = NoBounds THEN FALSE
    ELSE intersectTwoRects(The(skierBounds), ScaledRect(The(obstacle.bounds)))

\* A search that returns the last overlapping obstacle instead of the first.
Collision_lastHit(s, image, obstacles) ==
    LET skierBounds == getBounds(s, image)
        hits == {i \in 1..Len(obstacles) :
                    skierBounds # NoBounds /\ Collides(skierBounds, obstacles[i])}
    IN  IF hits = {} THEN "none"
        ELSE obstacles[CHOOSE i \in hits : \A j \in hits : i >= j].imageName

\* The image name of the obstacle find() returns, or "none".
Collision(s, image, obstacles) ==
    LET skierBounds == getBounds(s, image)
        hits == {i \in 1..Len(obstacles) :
                    skierBounds # NoBounds /\ Collides(skierBounds, obstacles[i])}
    IN  IF hits = {} THEN "none"
        ELSE obstacles[CHOOSE i \in hits : \A j \in hits : i <= j].imageName

\* checkIfHitObstacle() that lets a jumping skier pass every obstacle.
checkIfHitObstacle_lenient(s, image, obstacles) ==
    LET collision == Collision(s, image, obstacles)
    IN  IF collision = "none" THEN s
        ELSE IF collision = JUMP_RAMP THEN jumpIf(s)
        ELSE crashIf(s)

checkIfHitObstacle(s, image, obstacles) ==
    LET collision == Collision(s, image, obstacles)
    IN  IF collision = "none" THEN s
        ELSE IF collision = JUMP_RAMP THEN jumpIf(s)
        ELSE IF collision = ROCK1 \/ collision = ROCK2 THEN crashIf(s)
        ELSE crash(s)

updateOf(s, image, obstacles) ==
    IF isSkiing(s) \/ isJumping(s)
    THEN checkIfHitObstacle(move(s), image, obstacles)
    ELSE s

(* ------------------------------- input --------------------------------- *)

\* handleInput() without the test for a dead skier.
handleInputOf_noDeadCheck(s, inputKey) ==
    CASE inputKey = "LEFT" -> [skier |-> turnLeft(s), handled |-> TRUE]
      [] inputKey = "RIGHT" -> [skier |-> turnRight(s), handled |-> TRUE]
      [] inputKey = "UP" -> [skier |-> turnUp(s), handled |-> TRUE]
      [] inputKey = "DOWN" -> [skier |-> turnDown(s), handled |-> TRUE]
      [] inputKey = "SPACE" ->
           [skier |-> jump(changeSkierState(s, STATE_JUMPING), 0),
            handled |-> TRUE]
      [] OTHER -> [skier |-> s, handled |-> FALSE]

\* handleInput(inputKey): the skier after the call and the returned flag.
handleInputOf(s, inputKey) ==
    IF isDead(s) THEN [skier |-> s, handled |-> FALSE]
    ELSE CASE inputKey = "LEFT" -> [skier |-> turnLeft(s), handled |-> TRUE]
           [] inputKey = "RIGHT" -> [skier |-> turnRight(s), handled |-> TRUE]
           [] inputKey = "UP" -> [skier |-> turnUp(s), handled |-> TRUE]
           [] inputKey = "DOWN" -> [skier |-> turnDown(s), handled |-> TRUE]
           [] inputKey = "SPACE" ->
                [skier |-> jump(changeSkierState(s, STATE_JUMPING), 0),
                 handled |-> TRUE]
           [] OTHER -> [skier |-> s, handled |-> FALSE]

(* ------------------------- inputs of the model ------------------------- *)

\* What the image lookup can answer for the skier's current image.
ImageLookups ==
    {NoImage, Some([width |-> 8, height |-> 8]), Some([width |-> 6, height |-> 12])}

Wide == Some(Rect(-1000, -1000, 1000, 1000))
Far == Some(Rect(5000, 5000, 5100, 5100))
West == Some(Rect(-1000, -1000, -10, 1000))
South == Some(Rect(-1000, -1, 1000, 1000))

Obstacle(name, bounds) == [imageName |-> name, bounds |-> bounds]

ObstacleKinds == {JUMP_RAMP, ROCK1, ROCK2, TREE, TREE_CLUSTER}

\* The obstacle collections handed to update(): none, one obstacle, or two in
\* iteration order, with bounds that cover, miss or partly cover the world.
ObstacleLists ==
    {<< >>}
    \cup {<<Obstacle(k, Wide)>> : k \in ObstacleKinds}
    \cup {<<Obstacle(TREE, b)>> : b \in {NoBounds, West, South}}
    \cup {<<Obstacle(TREE, NoBounds), Obstacle(ROCK2, Wide)>>,
          <<Obstacle(TREE, Far), Obstacle(JUMP_RAMP, Wide)>>,
          <<Obstacle(ROCK1, Wide), Obstacle(TREE, Wide)>>,
          <<Obstacle(TREE, Wide), Obstacle(ROCK1, Wide)>>,
          <<Obstacle(JUMP_RAMP, Wide), Obstacle(TREE, Wide)>>}

\* How far the skier is from the origin: the sideways and vertical parts, and
\* the diagonal part (the same size on both axes, counted once).
Distance(p) == Abs(p.x.u) + Abs(p.y.u) + Abs(p.y.d)

\* The explored part of the world and of the callback queue.
InBounds(s) ==
    /\ Distance(s.position) <= MaxTravel * STARTING_SPEED
    /\ Len(s.timers) <= MaxTimers

(* ------------------------- record of the last call -------------------- *)

\* The places, in iteration order, of the obstacles handed to update() whose
\* bounds are not null and overlap the skier's bounds after the move; none
\* when update() does not look at the obstacles at all.
Intersecting(s, image, obstacles) ==
    IF (isSkiing(s) \/ isJumping(s)) /\ image # NoImage
    THEN {i \in 1..Len(obstacles) :
            /\ obstacles[i].bounds # NoBounds
            /\ intersectTwoRects(The(getBounds(move(s), image)),
                                 ScaledRect(The(obstacles[i].bounds)))}
    ELSE {}

\* The first of these places (0 when there is none) and how many follow it.
FirstOf(places) ==
    IF places = {} THEN 0 ELSE CHOOSE i \in places : \A j \in places : i <= j

RestOf(places) == IF places = {} THEN 0 ELSE Cardinality(places) - 1

(* ------------------------------ actions -------------------------------- *)

Become(s) ==
    /\ InBounds(s)
    /\ state' = s.state
    /\ direction' = s.direction
    /\ speed' = s.speed
    /\ imageName' = s.imageName
    /\ position' = s.position
    /\ timers' = s.timers

Init ==
    /\ state = STATE_SKIING
    /\ direction = DIRECTION_DOWN
    /\ speed = STARTING_SPEED
    /\ imageName = "skierDown"
    /\ position = [x |-> [u |-> 0, d |-> 0], y |-> [u |-> 0, d |-> 0]]
    /\ timers = << >>
    /\ last = [op |-> "new", arg |-> "none", pre |-> STATE_SKIING, ret |-> FALSE,
               at |-> 0, also |-> 0]

\* update(): one tick of the game loop.
update ==
    \E image \in ImageLookups, obstacles \in ObstacleLists :
        /\ Become(updateOf(Self, image, obstacles))
        /\ last' = [op |-> "update",
                    arg |-> IF isSkiing(Self) \/ isJumping(Self)
                            THEN Collision(move(Self), image, obstacles)
                            ELSE "none",
                    pre |-> state, ret |-> FALSE,
                    at |-> FirstOf(Intersecting(Self, image, obstacles)),
                    also |-> RestOf(Intersecting(Self, image, obstacles))]

\* handleInput(inputKey): one key event.
handleInput ==
    \E inputKey \in InputKeys :
        LET r == handleInputOf(Self, inputKey)
        IN  /\ Become(r.skier)
            /\ last' = [op |-> "handleInput", arg |-> inputKey,
                        pre |-> state, ret |-> r.handled, at |-> 0, also |-> 0]

\* die(): the kill signal of the game.
die ==
    /\ Become(dieOf(Self))
    /\ last' = [op |-> "die", arg |-> "none", pre |-> state, ret |-> FALSE,
                at |-> 0, also |-> 0]

\* The oldest pending setTimeout callback fires: () => this.jump(progress + 1).
\* All callbacks have the same delay, so they fire in scheduling order.
jumpTimer ==
    /\ timers # << >>
    /\ Become(jump([Self EXCEPT !.timers = Tail(@)], Head(timers)))
    /\ last' = [op |-> "timer", arg |-> Head(timers), pre |-> state, ret |-> FALSE,
                at |-> 0, also |-> 0]

Next == update \/ handleInput \/ die \/ jumpTimer

Spec == Init /\ [][Next]_vars

\* The event loop runs every callback whose delay has passed: a pending jump
\* callback is not postponed for ever.
FairSpec == Spec /\ WF_vars(jumpTimer)

TypeOK ==
    /\ state \in STATES
    /\ speed \in {0, STARTING_SPEED}
    /\ timers \in Seq(1..4)

(* ------------------------------- claims -------------------------------- *)

Skier == <<state, direction, speed, imageName, position>>

\* C1 (as claimed): once the skier is dead, state stays dead and position and
\* speed never change again, whatever inputs, updates and pending jump
\* callbacks follow.
C1_DieIsTerminal ==
    [][state = STATE_DEAD =>
         (state' = STATE_DEAD /\ position' = position /\ speed' = speed)]_vars

\* C2 (as claimed): after every operation returns, speed is 0 exactly when
\* the skier is crashed or dead.
C2_SpeedZeroIffStopped ==
    (speed = 0) <=> (state \in {STATE_CRASHED, STATE_DEAD})

\* C3 (as claimed): the jump key pressed while crashed changes nothing and
\* schedules no callback.
C3_JumpRefusedWhileCrashed ==
    [][(state = STATE_CRASHED /\ last'.op = "handleInput" /\ last'.arg = "SPACE")
         => (state' = STATE_CRASHED /\ UNCHANGED <<Skier, timers>>)]_vars

\* C4 (as claimed): every firing of a jump callback applies the image of its
\* stage; stages 1..3 schedule the next stage, and stage 4 takes the skier
\* from jumping back to skiing and schedules nothing.
C4_EveryStageApplied ==
    [][last'.op = "timer" =>
         LET p == Head(timers)
         IN  /\ p \in 1..4
             /\ imageName' = IMAGES[p]
             /\ p < 4 => (timers' = Append(Tail(timers), p + 1) /\ state' = state)
             /\ p = 4 => (/\ timers' = Tail(timers)
                          /\ state = STATE_JUMPING
                          /\ state' = STATE_SKIING)]_vars

\* C4 (amended): a jump starts by applying the stage-0 image and scheduling
\* stage 1; pending stages are always in 1..4; a callback that fires while the
\* skier is crashed changes nothing and ends its chain; any other firing
\* applies the image of its stage, and then stages 1..3 schedule exactly the
\* next stage and leave state alone, while stage 4 schedules nothing and
\* leaves the skier skiing.
C4_StagesInOrderUnlessCrashed ==
    [][/\ \A i \in 1..Len(timers') : timers'[i] \in 1..(jumpStagesCount - 1)
       /\ Len(timers') > Len(timers) =>
            (/\ timers' = Append(timers, 1)
             /\ imageName' = IMAGES[0]
             /\ state' = STATE_JUMPING)
       /\ last'.op = "timer" =>
            LET p == Head(timers)
            IN  IF state = STATE_CRASHED
                THEN timers' = Tail(timers) /\ UNCHANGED Skier
                ELSE /\ imageName' = IMAGES[p]
                     /\ p < 4 => (/\ timers' = Append(Tail(timers), p + 1)
                                  /\ state' = state)
                     /\ p = 4 => (/\ timers' = Tail(timers)
                                  /\ state' = STATE_SKIING)]_vars

\* A jump has just run its last stage and handed the skier back to skiing.
C4_Witness ==
    /\ last.op = "timer" /\ last.arg = 4 /\ last.pre = STATE_JUMPING
    /\ state = STATE_SKIING /\ imageName = IMAGES[4] /\ timers = << >>

\* C5: a jump ramp found by update() starts a jump when the skier was skiing
\* (jumping state, stage-0 image, one callback scheduled) and has no effect
\* on state, image or pending callbacks when the skier was already jumping.
C5_RampStartsJumpOnce ==
    [][(last'.op = "update" /\ last'.arg = JUMP_RAMP) =>
         /\ state = STATE_SKIING =>
              (/\ state' = STATE_JUMPING
               /\ imageName' = IMAGES[0]
               /\ timers' = Append(timers, 1))
         /\ state = STATE_JUMPING =>
              (/\ state' = STATE_JUMPING
               /\ imageName' = imageName
               /\ timers' = timers)]_vars

\* A jumping skier with a pending callback has just run over a ramp.
C5_Witness ==
    /\ last.op = "update" /\ last.arg = JUMP_RAMP /\ last.pre = STATE_JUMPING
    /\ state = STATE_JUMPING /\ timers # << >>

\* C6: a rock found by update() leaves a jumping skier jumping with speed and
\* image untouched, and crashes a skiing skier (speed 0, crash sprite).
C6_RockCrashesOnlySkiing ==
    [][(last'.op = "update" /\ last'.arg \in {ROCK1, ROCK2}) =>
         /\ state = STATE_JUMPING =>
              (/\ state' = STATE_JUMPING
               /\ speed' = speed
               /\ imageName' = imageName)
         /\ state = STATE_SKIING =>
              (/\ state' = STATE_CRASHED
               /\ speed' = 0
               /\ imageName' = SKIER_CRASH)]_vars

\* A jumping skier has just passed over a rock at full speed.
C6_Witness ==
    /\ last.op = "update" /\ last.arg \in {ROCK1, ROCK2}
    /\ last.pre = STATE_JUMPING /\ state = STATE_JUMPING
    /\ speed = STARTING_SPEED

\* C7: an obstacle that is neither ramp nor rock, found by update(), always
\* leaves the skier crashed with speed 0 and the crash sprite.
C7_OtherObstacleAlwaysCrashes ==
    (last.op = "update" /\ last.arg \notin {"none", JUMP_RAMP, ROCK1, ROCK2}) =>
        (state = STATE_CRASHED /\ speed = 0 /\ imageName = SKIER_CRASH)

\* A jumping skier has just hit a tree.
C7_Witness ==
    /\ last.op = "update" /\ last.arg = TREE /\ last.pre = STATE_JUMPING
    /\ state = STATE_CRASHED

\* C8: LEFT or RIGHT pressed while crashed leaves the skier skiing at the
\* starting speed, facing full-left or full-right with the matching image.
C8_TurnRecoversFromCrash ==
    (last.op = "handleInput" /\ last.pre = STATE_CRASHED
        /\ last.arg \in {"LEFT", "RIGHT"}) =>
        /\ state = STATE_SKIING
        /\ speed = STARTING_SPEED
        /\ direction = (IF last.arg = "LEFT" THEN DIRECTION_LEFT ELSE DIRECTION_RIGHT)
        /\ imageName = DIRECTION_IMAGES[direction]

\* A crashed skier has just been turned right.
C8_Witness ==
    /\ last.op = "handleInput" /\ last.pre = STATE_CRASHED /\ last.arg = "RIGHT"
    /\ state = STATE_SKIING /\ position.x.u > 0

\* C9: while the skier is dead, update() and handleInput(key) change nothing,
\* schedule nothing, and handleInput returns false.
C9_DeadIgnoresUpdateAndInput ==
    [][(state = STATE_DEAD /\ last'.op \in {"update", "handleInput"}) =>
         /\ UNCHANGED <<Skier, timers>>
         /\ last'.op = "handleInput" => last'.ret = FALSE]_vars

\* A key has just been handed to a dead skier.
C9_Witness ==
    /\ last.op = "handleInput" /\ last.arg \in KEYS /\ last.pre = STATE_DEAD
    /\ state = STATE_DEAD

\* C10: direction is always one of the five legal values.
C10_DirectionInRange ==
    direction \in DIRECTION_LEFT..DIRECTION_RIGHT

\* LEFT has just been pressed at full-left during a jump: nudged, still
\* full-left (a turn would have replaced the jump image).
C10_Witness ==
    /\ last.op = "handleInput" /\ last.arg = "LEFT" /\ last.pre = STATE_JUMPING
    /\ direction = DIRECTION_LEFT /\ position.x.u = -STARTING_SPEED
    /\ imageName \in {IMAGES[p] : p \in DOMAIN IMAGES}

\* C11: update() moves the skier only while skiing or jumping, and then by
\* direction alone: nothing when facing full-left or full-right, speed on y
\* when facing down, speed / D on both axes when facing diagonally (x down
\* for left-down, up for right-down, y up); crashed or dead, nothing moves.
C11_MovementByDirection ==
    [][last'.op = "update" =>
         IF state \in {STATE_SKIING, STATE_JUMPING}
         THEN CASE direction = DIRECTION_DOWN ->
                     position' = [position EXCEPT !.y.u = @ + speed]
                [] direction = DIRECTION_LEFT_DOWN ->
                     position' = [position EXCEPT !.x.d = @ - speed,
                                                  !.y.d = @ + speed]
                [] direction = DIRECTION_RIGHT_DOWN ->
                     position' = [position EXCEPT !.x.d = @ + speed,
                                                  !.y.d = @ + speed]
                [] OTHER -> position' = position
         ELSE position' = position]_vars

\* One tick from the origin facing down at speed 10 has put the skier at (0, 10).
C11_Witness ==
    /\ last.op = "update" /\ last.pre = STATE_SKIING
    /\ direction = DIRECTION_DOWN /\ speed = STARTING_SPEED
    /\ position = [x |-> [u |-> 0, d |-> 0], y |-> [u |-> STARTING_SPEED, d |-> 0]]

\* C12: LEFT on a skier who is not dead first recovers a crashed skier to
\* skiing facing full-left; then at full-left x drops by exactly the starting
\* speed (whatever the current speed) and direction stays, and otherwise
\* direction drops by one step, the image follows and position stays.
\* RIGHT is the mirror image.
C12_TurnOrNudge ==
    [][(state # STATE_DEAD /\ last'.op = "handleInput"
            /\ last'.arg \in {"LEFT", "RIGHT"}) =>
         LET end == IF last'.arg = "LEFT" THEN DIRECTION_LEFT ELSE DIRECTION_RIGHT
             step == IF last'.arg = "LEFT" THEN -1 ELSE 1
             from == IF state = STATE_CRASHED THEN end ELSE direction
         IN  /\ state = STATE_CRASHED => state' = STATE_SKIING
             /\ IF from = end
                THEN /\ direction' = end
                     /\ position' =
                          [position EXCEPT !.x.u = @ + step * STARTING_SPEED]
                ELSE /\ direction' = direction + step
                     /\ imageName' = DIRECTION_IMAGES[direction']
                     /\ position' = position]_vars

\* A skier standing still at full-left has just been nudged left by LEFT.
C12_Witness ==
    /\ last.op = "handleInput" /\ last.arg = "LEFT"
    /\ last.pre \in {STATE_SKIING, STATE_JUMPING}
    /\ speed = 0 /\ direction = DIRECTION_LEFT
    /\ position.x.u = -STARTING_SPEED

\* C13 (as claimed): handleInput returns true exactly when the call changed
\* the skier or started a jump.
C13_HandledIffEffect ==
    [][last'.op = "handleInput" =>
         (last'.ret <=> ~(UNCHANGED <<Skier, timers>>))]_vars

\* C13 (amended): handleInput returns true exactly when the skier is not dead
\* and the key is one of LEFT, RIGHT, UP, DOWN, JUMP, whether or not the call
\* changed anything: UP or DOWN while crashed and UP while facing down or
\* diagonally return true and change nothing. When it returns false (a dead
\* skier, or any other key) nothing has changed.
C13_HandledIffKnownKey ==
    [][last'.op = "handleInput" =>
         /\ last'.ret <=> (state # STATE_DEAD /\ last'.arg \in KEYS)
         /\ ~last'.ret => UNCHANGED <<Skier, timers>>
         /\ (state = STATE_CRASHED /\ last'.arg \in {"UP", "DOWN"}) =>
                UNCHANGED <<Skier, timers>>
         /\ (last'.arg = "UP" /\ direction \in DIRECTION_LEFT_DOWN..DIRECTION_RIGHT_DOWN)
                => UNCHANGED <<Skier, timers>>]_vars

\* UP has just been handed to a crashed skier: reported handled, nothing changed.
C13_Witness ==
    /\ last.op = "handleInput" /\ last.arg = "UP" /\ last.pre = STATE_CRASHED
    /\ last.ret = TRUE /\ state = STATE_CRASHED /\ direction = DIRECTION_LEFT

\* C14 (as claimed): the image always follows the state: the directional
\* image while skiing, a jump-stage image while jumping, the crash sprite
\* while crashed.
C14_ImageFollowsState ==
    /\ state = STATE_SKIING => imageName = DIRECTION_IMAGES[direction]
    /\ state = STATE_JUMPING => imageName \in {IMAGES[p] : p \in DOMAIN IMAGES}
    /\ state = STATE_CRASHED => imageName = SKIER_CRASH

\* C15 (as claimed, in the form a finite run refutes): nothing cuts a jump
\* short: no call removes a pending callback, and every firing before the
\* last stage schedules the next stage.
C15_ChainNeverCut ==
    [][/\ last'.op # "timer" =>
            (/\ Len(timers') >= Len(timers)
             /\ SubSeq(timers', 1, Len(timers)) = timers)
       /\ (last'.op = "timer" /\ Head(timers) < jumpStagesCount - 1) =>
            timers' = Append(Tail(timers), Head(timers) + 1)]_vars

\* C15 (amended): only a crash cuts a jump short. update(), handleInput() and
\* die() never remove a pending callback; a callback that fires while the
\* skier is not crashed schedules the next stage unless it is the last one;
\* a callback that fires while the skier is crashed schedules nothing; and
\* with fair firing, whenever a callback is pending some jump comes to its
\* end, at its last stage or at a firing on a crashed skier.
C15_ChainRunsUnlessCrashed ==
    /\ [][/\ last'.op # "timer" =>
               (/\ Len(timers') >= Len(timers)
                /\ SubSeq(timers', 1, Len(timers)) = timers)
          /\ (last'.op = "timer" /\ state # STATE_CRASHED
                /\ Head(timers) < jumpStagesCount - 1) =>
               timers' = Append(Tail(timers), Head(timers) + 1)
          /\ (last'.op = "timer" /\ state = STATE_CRASHED) =>
               timers' = Tail(timers)]_vars
    /\ (timers # << >>)
          ~> (/\ last.op = "timer"
              /\ last.arg = jumpStagesCount - 1 \/ last.pre = STATE_CRASHED)

\* A jump that was under way when the skier died has run to its last stage.
C15_Witness ==
    /\ last.op = "timer" /\ last.arg = jumpStagesCount - 1
    /\ last.pre = STATE_DEAD /\ imageName = IMAGES[jumpStagesCount - 1]

\* C16 (as claimed): once the skier has crashed with a jump callback pending,
\* no firing of that callback changes state or image, whether it fires while
\* the skier is still crashed or right after a LEFT/RIGHT recovery.  (No
\* callback is scheduled while the skier is crashed, so every callback pending
\* then was pending at the crash.)
C16_StaleTimerChangesNothing ==
    [][(/\ last'.op = "timer"
        /\ \/ state = STATE_CRASHED
           \/ /\ last.op = "handleInput"
              /\ last.pre = STATE_CRASHED
              /\ last.arg \in {"LEFT", "RIGHT"}) =>
         (state' = state /\ imageName' = imageName)]_vars

\* C17: in one update() the first obstacle, in iteration order, whose bounds
\* are not null and overlap the skier's bounds decides the outcome alone: the
\* skier ends exactly as if that obstacle were the only one, and as if there
\* were no obstacle when none overlaps; in particular a jumping skier who
\* meets a rock listed before an overlapping obstacle stays jumping.
C17_FirstObstacleDecides ==
    /\ \A image \in ImageLookups, obstacles \in ObstacleLists :
          LET first == FirstOf(Intersecting(Self, image, obstacles))
          IN  updateOf(Self, image, obstacles) =
                updateOf(Self, image,
                         IF first = 0 THEN << >> ELSE <<obstacles[first]>>)
    /\ (last.op = "update" /\ last.pre = STATE_JUMPING
           /\ last.arg \in {ROCK1, ROCK2} /\ last.at = 1 /\ last.also > 0)
          => state = STATE_JUMPING

\* A jumping skier has just met a rock listed before another overlapping
\* obstacle, and is still jumping.
C17_Witness ==
    /\ last.op = "update" /\ last.pre = STATE_JUMPING /\ last.arg = ROCK1
    /\ last.at = 1 /\ last.also = 1 /\ state = STATE_JUMPING

\* The centre of the skier, in the units of the compared rectangles.
CentreX == Scaled(position.x)
CentreY == Scaled(position.y)

\* C18 (as claimed): the collision rectangle has left x - w/2, right x + w/2,
\* top y - h/2 and bottom y + h/4, and so contains the centre point.
C18_BottomBelowCentre ==
    \A image \in ImageLookups \ {NoImage} :
        LET b == The(getBounds(Self, image))
            w == The(image).width
            h == The(image).height
        IN  /\ b.left = CentreX - 2 * DiagNum * w
            /\ b.right = CentreX + 2 * DiagNum * w
            /\ b.top = CentreY - 2 * DiagNum * h
            /\ b.bottom = CentreY + DiagNum * h
            /\ b.left <= CentreX /\ CentreX <= b.right
            /\ b.top <= CentreY /\ CentreY <= b.bottom

\* C18 (amended): the collision rectangle has left x - w/2, right x + w/2,
\* top y - h/2 and a bottom edge one quarter of the image height above the
\* centre (y - h/4): it is the band between y - h/2 and y - h/4, and the
\* centre point lies below it.  An obstacle whose top edge is at -1 is
\* therefore met exactly when y - h/4 >= -1.
C18_BottomAboveCentre ==
    \A image \in ImageLookups \ {NoImage} :
        LET b == The(getBounds(Self, image))
            w == The(image).width
            h == The(image).height
        IN  /\ b.left = CentreX - 2 * DiagNum * w
            /\ b.right = CentreX + 2 * DiagNum * w
            /\ b.top = CentreY - 2 * DiagNum * h
            /\ b.bottom = CentreY - DiagNum * h
            /\ b.top < b.bottom /\ b.bottom < CentreY
            /\ (Collision(Self, image, <<Obstacle(TREE, South)>>) = TREE)
                  <=> (CentreY - DiagNum * h >= -4 * DiagNum)

\* update() has just found an obstacle with a rectangle that lies wholly
\* above the skier's centre, at a place where an obstacle just below the
\* centre line is not met.
C18_Witness ==
    /\ last.op = "update" /\ last.arg # "none"
    /\ position.y = [u |-> 0, d |-> 0]
    /\ \A image \in ImageLookups \ {NoImage} :
          /\ The(getBounds(Self, image)).bottom < CentreY
          /\ Collision(Self, image, <<Obstacle(TREE, South)>>) = "none"

\* C19 (as claimed): at most one jump callback is pending at any time.
C19_AtMostOneTimer ==
    Len(timers) <= 1

\* C20: a jumping skier always has a jump callback pending, and with fair
\* firing of the callbacks the skier does not stay jumping for ever.
C20_NeverStuckJumping ==
    /\ [](state = STATE_JUMPING => timers # << >>)
    /\ (state = STATE_JUMPING) ~> (state # STATE_JUMPING)

\* The last stage of one jump has just ended the jumping state while the
\* callback of another jump is still pending.
C20_Witness ==
    /\ last.op = "timer" /\ last.arg = jumpStagesCount - 1
    /\ last.pre = STATE_JUMPING /\ state = STATE_SKIING /\ timers # << >>
====
